---- MODULE Spec2Model ----
(***************************************************************************)
(* The actor pool of pulsar: PoolMixin / Monitor (pulsar/async/monitor.py) *)
(* and the monitor hooks of the TaskQueue application                      *)
(* (pulsar/apps/tasks/__init__.py).                                        *)
(*                                                                         *)
(* One monitor, sharing the arbiter's event loop, maintains a pool of      *)
(* worker actors.  Every callback of the event loop (a maintenance cycle,  *)
(* a spawn callback, one turn of the close_actors generator) is one atomic *)
(* action; actors live in other threads or processes and die, exit and     *)
(* get linked between callbacks.                                           *)
(***************************************************************************)
EXTENDS Integers, FiniteSets, Sequences, TLC

\* ------------------------------------------------------------ bounds
MaxActors == 2
MaxDeaths == 1
MaxResize == 1
MaxTime == 1
MaxPeriod == 1
MaxCycles == 10
MaxClients == 2
MaxCmds == 2

\* ------------------------------------------------- program constants
CLOSE_TIMEOUT == 3
\* sys.maxsize of a 32-bit build; every age is far below it.
sys_maxsize == 2147483647

\* Every spawn beyond num_actors replaces an actor that died.
MaxAid == MaxActors + MaxDeaths
Aids == 1..MaxAid

Clients == 1..MaxClients

VARIABLES
    num_actors,        \* PoolMixin.num_actors
    _spawing,          \* PoolMixin._spawing: the spawn counter
    MANAGED_ACTORS,    \* the monitor's pool: the aids of its proxies
    arbiter_ACTORS,    \* the arbiter's MANAGED_ACTORS
    linked,            \* the monitor's _linked_actors
    status,            \* aid -> "none" | "alive" | "dead": what is_alive() reads
    pending,           \* aids whose spawn deferred has not called back yet
    nextAid,           \* the next actor id the arbiter hands out
    worker_params,     \* aid -> the parameters the worker was spawned with
    stop_sent,         \* aids that were sent stop
    terminated,        \* aids that were terminated
    joined,            \* aids that were joined
    mstate,            \* the monitor: "initial" | "running" | "closing" | "stopped"
    cfg,               \* the TaskQueue application's configuration, and whether
                       \* params['app'] of a spawn is this application itself
    backend,           \* TaskQueue.backend
    now,               \* the clock: time.time() / datetime.now()
    close,             \* close_actors' frame: start
    lastPass,          \* the monitor's latest manage_actors pass: its mode, its result,
                       \* the manage_actor calls it made
    lastCycle,         \* the latest maintenance cycle: its exception, whether it ran
                       \* the hook and ticked, the num_actors it saw
    hist,              \* counters: deaths, resizes, cycles
    info_req,          \* Monitor.info(full=True) under way: the workers it asked
    info_data,         \* the payload Monitor._info made last
    connections,       \* the arbiter's open client connections
    cstate,            \* client -> "new" | "connected" | "closed" | "failed"
    received,          \* client -> PulsarClient.received
    cmds,              \* client -> the commands it has sent
    replies,           \* client -> the values its commands returned
    request,           \* client -> its command on the way to the arbiter
    response           \* client -> the reply on the way back

info_vars == <<info_req, info_data>>

client_vars == <<connections, cstate, received, cmds, replies, request, response>>

pool_vars == <<num_actors, _spawing, MANAGED_ACTORS, arbiter_ACTORS, linked, status,
          pending, nextAid, worker_params, stop_sent, terminated, joined, mstate,
          cfg, backend, now, close, lastPass, lastCycle, hist>>

vars == <<pool_vars, info_vars, client_vars>>

\* ----------------------------------------------------------- helpers
Min(a, b) == IF a < b THEN a ELSE b

\* The proxy's age: the arbiter's creation counter, so a smaller age is an
\* older actor.
age(a) == a

is_alive(st, a) == st[a] = "alive"

LiveCount == Cardinality({a \in MANAGED_ACTORS : is_alive(status, a)})

NoPass == [mode |-> "none", alive |-> 0, managed |-> 0]

NoCycle == [error |-> "", ticks |-> 0, hook |-> 0, num |-> 0]

NoClose == [start |-> 0]

NoRequest == [open |-> FALSE, result |-> {}]

NoData == [made |-> FALSE, full |-> FALSE, workers |-> {}, num_actors |-> 0]

\* --------------------------------------------------------- PoolMixin

\* manage_actors with alive += 1 outside the else branch: the dead are counted.
manage_actors_countall(ACTORS, lnk, st, terminate, stop, manage) ==
    LET dead  == {a \in ACTORS : st[a] # "alive"}
        live  == ACTORS \ dead
    IN  [ACTORS     |-> ACTORS \ dead,
         linked     |-> lnk \ dead,
         alive      |-> Cardinality(ACTORS),
         found_dead |-> dead,
         found_alive |-> live,
         joined     |-> dead \cup (IF terminate THEN live ELSE {}),
         terminated |-> IF terminate THEN live ELSE {},
         stopped    |-> IF ~terminate /\ stop THEN live ELSE {},
         managed    |-> IF ~terminate /\ ~stop /\ manage THEN live ELSE {}]

\* manage_actors with "if manage" for "elif manage": the probe comes on top of
\* terminate or stop.
manage_actors_ifmanage(ACTORS, lnk, st, terminate, stop, manage) ==
    LET dead  == {a \in ACTORS : st[a] # "alive"}
        live  == ACTORS \ dead
    IN  [ACTORS     |-> ACTORS \ dead,
         linked     |-> lnk \ dead,
         alive      |-> Cardinality(live),
         found_dead |-> dead,
         found_alive |-> live,
         joined     |-> dead \cup (IF terminate THEN live ELSE {}),
         terminated |-> IF terminate THEN live ELSE {},
         stopped    |-> IF ~terminate /\ stop THEN live ELSE {},
         managed    |-> IF manage THEN live ELSE {}]

\* manage_actors that pops the live actors it stops.
manage_actors_popstopped(ACTORS, lnk, st, terminate, stop, manage) ==
    LET dead  == {a \in ACTORS : st[a] # "alive"}
        live  == ACTORS \ dead
        gone  == IF ~terminate /\ stop THEN ACTORS ELSE dead
    IN  [ACTORS     |-> ACTORS \ gone,
         linked     |-> lnk \ gone,
         alive      |-> Cardinality(live),
         found_dead |-> dead,
         found_alive |-> live,
         joined     |-> dead \cup (IF terminate THEN live ELSE {}),
         terminated |-> IF terminate THEN live ELSE {},
         stopped    |-> IF ~terminate /\ stop THEN live ELSE {},
         managed    |-> IF ~terminate /\ ~stop /\ manage THEN live ELSE {}]

\* manage_actors(terminate, stop, manage) over the pool ACTORS: the dead are
\* joined and popped from the pool and from the linked actors; every live
\* actor is counted and gets one of terminate+join, stop, manage_actor.
manage_actors(ACTORS, lnk, st, terminate, stop, manage) ==
    LET dead  == {a \in ACTORS : ~is_alive(st, a)}
        live  == ACTORS \ dead
    IN  [ACTORS     |-> ACTORS \ dead,
         linked     |-> lnk \ dead,
         alive      |-> Cardinality(live),
         found_dead |-> dead,
         found_alive |-> live,
         joined     |-> dead \cup (IF terminate THEN live ELSE {}),
         terminated |-> IF terminate THEN live ELSE {},
         stopped    |-> IF ~terminate /\ stop THEN live ELSE {},
         managed    |-> IF ~terminate /\ ~stop /\ manage THEN live ELSE {}]

\* spawn_actors that does not look at the spawn counter.
spawn_actors_nocheck(n, ACTORS, spawing) ==
    LET to_spawn == n - Cardinality(ACTORS)
    IN  IF n # 0 /\ to_spawn > 0 THEN to_spawn ELSE 0

\* spawn_actors that spawns one actor too few.
spawn_actors_short(n, ACTORS, spawing) ==
    LET to_spawn == n - Cardinality(ACTORS)
    IN  IF n # 0 /\ to_spawn > 0 /\ spawing = 0 THEN to_spawn - 1 ELSE 0

\* spawn_actors: the number of spawn_actor calls it makes.
spawn_actors(n, ACTORS, spawing) ==
    LET to_spawn == n - Cardinality(ACTORS)
    IN  IF n # 0 /\ to_spawn > 0 /\ spawing = 0 THEN to_spawn ELSE 0

\* The search of stop_actors for the worker to stop: w, kage = 0, sys.maxsize;
\* then for every worker with age < kage: w, kage = w, age.
RECURSIVE search_worker(_, _, _)
search_worker(workers, w, kage) ==
    IF workers = {} THEN w
    ELSE LET worker == CHOOSE x \in workers : TRUE
         IN  IF age(worker) < kage
             THEN search_worker(workers \ {worker}, w, age(worker))
             ELSE search_worker(workers \ {worker}, w, kage)

\* Monitor.stop_actor(actor): actor.is_alive() on something that is no proxy
\* (the 0 the search starts from) raises AttributeError; a dead actor is
\* popped, a live one is sent stop.
stop_actor(actor, ACTORS, st) ==
    IF actor \notin Aids
    THEN [ACTORS |-> ACTORS, stopped |-> {}, error |-> "AttributeError"]
    ELSE IF ~is_alive(st, actor)
    THEN [ACTORS |-> ACTORS \ {actor}, stopped |-> {}, error |-> ""]
    ELSE [ACTORS |-> ACTORS, stopped |-> {actor}, error |-> ""]

\* stop_actors' loop: for i in range(num_to_kill, 0, -1).
RECURSIVE stop_loop(_, _, _, _)
stop_loop(i, ACTORS, st, stopped) ==
    IF i <= 0 THEN [ACTORS |-> ACTORS, stopped |-> stopped, error |-> ""]
    ELSE LET w == search_worker(ACTORS, 0, sys_maxsize)
             r == stop_actor(w, ACTORS, st)
         IN  IF r.error # ""
             THEN [ACTORS |-> ACTORS, stopped |-> stopped, error |-> r.error]
             ELSE stop_loop(i - 1, r.ACTORS, st, stopped \cup r.stopped)

\* stop_actors without its test of num_actors.
stop_actors_nozero(n, ACTORS, st) ==
    stop_loop(Cardinality(ACTORS) - n, ACTORS, st, {})

stop_actors(n, ACTORS, st) ==
    IF n # 0
    THEN stop_loop(Cardinality(ACTORS) - n, ACTORS, st, {})
    ELSE [ACTORS |-> ACTORS, stopped |-> {}, error |-> ""]

\* --------------------------------------------------------- TaskQueue

\* actorparams that leaves the parameters as the application has them.
actorparams_asis(params) == params

\* TaskQueue.actorparams: params['app'].cfg.set('schedule_periodic', False).
actorparams(params) == [params EXCEPT !.schedule_periodic = FALSE]

\* params['app'].cfg.set('schedule_periodic', False), as the monitor's
\* application sees it: params['app'] is built outside this file, and when it
\* is the application itself and no copy, the setting changed is its own.
cfg_set(c) ==
    IF c.shared THEN [c EXCEPT !.schedule_periodic = FALSE] ELSE c

\* monitor.running, as TaskQueue.monitor_task reads it: the bound method
\* (PoolMixin.__call__ calls self.running()), which is always true.
monitor_running_attr == TRUE

\* monitor_task that does not compare next_run with the clock.
monitor_task_nogate(be, t) ==
    be.created /\ monitor_running_attr

\* TaskQueue.monitor_task: whether it calls backend.tick().
monitor_task(be, t) ==
    be.created /\ monitor_running_attr /\ be.next_run <= t

\* The backend's next run once tick() has run at time t.
next_runs(t) == (t + 1)..(t + MaxPeriod)

\* ---------------------------------------------------------------- Init
InitCommon ==
    /\ linked = {}
    /\ stop_sent = {}
    /\ terminated = {}
    /\ joined = {}
    /\ cfg \in [schedule_periodic : BOOLEAN, shared : BOOLEAN]
    /\ now = 0
    /\ close = NoClose
    /\ lastPass = NoPass
    /\ lastCycle = NoCycle
    /\ hist = [deaths |-> 0, resizes |-> 0, cycles |-> 0, idle |-> 0]
    /\ info_req = NoRequest
    /\ info_data = NoData
    /\ connections = {}
    /\ cstate = [c \in Clients |-> "new"]
    /\ received = [c \in Clients |-> 0]
    /\ cmds = [c \in Clients |-> <<>>]
    /\ replies = [c \in Clients |-> <<>>]
    /\ request = [c \in Clients |-> <<>>]
    /\ response = [c \in Clients |-> <<>>]

\* PoolMixin.on_init: no actor, no spawn in flight.
Init ==
    /\ InitCommon
    /\ num_actors \in 0..MaxActors
    /\ _spawing = 0
    /\ MANAGED_ACTORS = {}
    /\ arbiter_ACTORS = {}
    /\ status = [a \in Aids |-> "none"]
    /\ pending = {}
    /\ nextAid = 1
    /\ worker_params = [a \in Aids |-> [schedule_periodic |-> FALSE]]
    /\ mstate = "initial"
    /\ backend = [created |-> FALSE, next_run |-> 0, schedule_periodic |-> FALSE]

\* The same, the application left with its default settings: schedule_periodic
\* is False, and setting it to False changes nothing.
InitDefaults ==
    /\ Init
    /\ cfg = [schedule_periodic |-> FALSE, shared |-> FALSE]

\* A running monitor with k live actors in its pool and j spawns in flight,
\* fewer than num_actors live actors, no more than num_actors in all.
InitPool ==
    /\ InitCommon
    /\ num_actors \in 1..MaxActors
    /\ \E k \in 0..(num_actors - 1) : \E j \in 0..(num_actors - k) :
          /\ MANAGED_ACTORS = 1..k
          /\ pending = (k + 1)..(k + j)
          /\ _spawing = j
          /\ arbiter_ACTORS = 1..(k + j)
          /\ status = [a \in Aids |-> IF a <= k + j THEN "alive" ELSE "none"]
          /\ nextAid = k + j + 1
    /\ worker_params = [a \in Aids |-> [schedule_periodic |-> FALSE]]
    /\ mstate = "running"
    /\ \E nr \in 0..MaxPeriod :
          backend = [created |-> TRUE, next_run |-> nr,
                     schedule_periodic |-> cfg.schedule_periodic]

\* ------------------------------------------------------------- actions

\* The monitor starts: TaskQueue.monitor_start creates the backend.
monitor_start ==
    /\ mstate = "initial"
    /\ mstate' = "running"
    /\ \E nr \in now..(now + MaxPeriod) :
          backend' = [created |-> TRUE, next_run |-> nr,
                      schedule_periodic |-> cfg.schedule_periodic]
    /\ UNCHANGED <<info_vars, client_vars, num_actors, _spawing, MANAGED_ACTORS, arbiter_ACTORS, linked,
                   status, pending, nextAid, worker_params, stop_sent, terminated,
                   joined, cfg, now, close, lastPass, lastCycle, hist>>

\* PoolMixin.__call__ -> Monitor.on_task: manage_actors, spawn_actors (each
\* spawn_actor asks the arbiter for an actor and counts it in _spawing),
\* stop_actors, monitor_task.  An exception of stop_actors ends the cycle.
on_task(counted) ==
    /\ mstate = "running"
    /\ LET m   == manage_actors(MANAGED_ACTORS, linked, status, FALSE, FALSE, TRUE)
           k   == spawn_actors(num_actors, m.ACTORS, _spawing)
           new == nextAid..(nextAid + k - 1)
           t   == stop_actors(num_actors, m.ACTORS, status)
           hook == t.error = ""
           tick == hook /\ monitor_task(backend, now)
       IN  /\ nextAid + k - 1 <= MaxAid
           /\ MANAGED_ACTORS' = t.ACTORS
           /\ linked' = m.linked
           /\ joined' = joined \cup m.joined
           /\ stop_sent' = stop_sent \cup t.stopped
           /\ _spawing' = _spawing + k
           /\ pending' = pending \cup new
           /\ arbiter_ACTORS' = arbiter_ACTORS \cup new
           /\ status' = [a \in Aids |-> IF a \in new THEN "alive" ELSE status[a]]
           /\ worker_params' = [a \in Aids |-> IF a \in new
                                                THEN actorparams([schedule_periodic |-> cfg.schedule_periodic])
                                                ELSE worker_params[a]]
           /\ nextAid' = nextAid + k
           /\ IF tick
              THEN \E nr \in next_runs(now) : backend' = [backend EXCEPT !.next_run = nr]
              ELSE backend' = backend
           /\ lastPass' = [mode |-> "manage", alive |-> m.alive,
                           managed |-> Cardinality(m.managed)]
           /\ lastCycle' = [error |-> t.error, ticks |-> IF tick THEN 1 ELSE 0,
                            hook |-> IF hook THEN 1 ELSE 0, num |-> num_actors]
           /\ hist' = [hist EXCEPT
                         !.cycles = IF counted THEN Min(@ + 1, MaxCycles) ELSE @,
                         !.idle = IF counted /\ _spawing = 0 THEN 1 ELSE @]
           /\ cfg' = IF k > 0 THEN cfg_set(cfg) ELSE cfg
    /\ UNCHANGED <<info_vars, client_vars, num_actors, terminated, mstate, now, close>>

call == on_task(FALSE)

\* The same cycle, counted.
counted_call == on_task(TRUE)

\* The counter taken down after the lookup: a KeyError leaves it as it was.
spawing_after_callback_late(spawing, known) ==
    IF known THEN spawing - 1 ELSE spawing

\* self._spawing -= 1, the first statement of _spawn_actor: the counter goes
\* down whether or not the arbiter still knows the actor.
spawing_after_callback(spawing, known) == spawing - 1

\* Monitor._spawn_actor, the callback of a spawn: the counter goes down and the
\* arbiter's proxy monitor enters the pool; arbiter.MANAGED_ACTORS[proxy.aid]
\* raises KeyError when the arbiter has dropped the actor already.
_spawn_actor(proxy) ==
    /\ proxy \in pending
    /\ pending' = pending \ {proxy}
    /\ _spawing' = spawing_after_callback(_spawing, proxy \in arbiter_ACTORS)
    /\ MANAGED_ACTORS' = IF proxy \in arbiter_ACTORS
                          THEN MANAGED_ACTORS \cup {proxy} ELSE MANAGED_ACTORS
    /\ UNCHANGED <<info_vars, client_vars, num_actors, arbiter_ACTORS, linked, status, nextAid,
                   worker_params, stop_sent, terminated, joined, mstate, cfg,
                   backend, now, close, lastPass, lastCycle, hist>>

spawn_callback == \E proxy \in Aids : _spawn_actor(proxy)

\* An actor fails: its thread or process is gone.
die(a) ==
    /\ status[a] = "alive"
    /\ a \notin stop_sent
    /\ hist.deaths < MaxDeaths
    /\ status' = [status EXCEPT ![a] = "dead"]
    /\ hist' = [hist EXCEPT !.deaths = @ + 1]
    /\ UNCHANGED <<info_vars, client_vars, num_actors, _spawing, MANAGED_ACTORS, arbiter_ACTORS, linked,
                   pending, nextAid, worker_params, stop_sent, terminated, joined,
                   mstate, cfg, backend, now, close, lastPass, lastCycle>>

actor_dies == \E a \in Aids : die(a)

\* An actor that was asked to stop exits.
exit(a) ==
    /\ status[a] = "alive"
    /\ a \in stop_sent
    /\ status' = [status EXCEPT ![a] = "dead"]
    /\ UNCHANGED <<info_vars, client_vars, num_actors, _spawing, MANAGED_ACTORS, arbiter_ACTORS, linked,
                   pending, nextAid, worker_params, stop_sent, terminated, joined,
                   mstate, cfg, backend, now, close, lastPass, lastCycle, hist>>

actor_exits == \E a \in Aids : exit(a)

\* The arbiter, a PoolMixin too, runs manage_actors over its own pool.
arbiter_manage ==
    /\ LET m == manage_actors(arbiter_ACTORS, {}, status, FALSE, FALSE, TRUE)
       IN  arbiter_ACTORS' = m.ACTORS
    /\ UNCHANGED <<info_vars, client_vars, num_actors, _spawing, MANAGED_ACTORS, linked, status, pending,
                   nextAid, worker_params, stop_sent, terminated, joined, mstate,
                   cfg, backend, now, close, lastPass, lastCycle, hist>>

\* A managed actor gets linked to the monitor.
link_actor(a) ==
    /\ mstate = "running"
    /\ a \in MANAGED_ACTORS
    /\ a \notin linked
    /\ linked' = linked \cup {a}
    /\ UNCHANGED <<info_vars, client_vars, num_actors, _spawing, MANAGED_ACTORS, arbiter_ACTORS, status,
                   pending, nextAid, worker_params, stop_sent, terminated, joined,
                   mstate, cfg, backend, now, close, lastPass, lastCycle, hist>>

actor_links == \E a \in Aids : link_actor(a)

\* Time passes while the monitor runs.
advance_time ==
    /\ mstate \in {"initial", "running"}
    /\ now < MaxTime
    /\ now' = now + 1
    /\ UNCHANGED <<info_vars, client_vars, num_actors, _spawing, MANAGED_ACTORS, arbiter_ACTORS, linked,
                   status, pending, nextAid, worker_params, stop_sent, terminated,
                   joined, mstate, cfg, backend, close, lastPass, lastCycle, hist>>

\* Time passes while the monitor closes; the clock needs to go no further than
\* the first instant past CLOSE_TIMEOUT.
close_time ==
    /\ mstate = "closing"
    /\ now - close.start <= CLOSE_TIMEOUT
    /\ now' = now + 1
    /\ UNCHANGED <<info_vars, client_vars, num_actors, _spawing, MANAGED_ACTORS, arbiter_ACTORS, linked,
                   status, pending, nextAid, worker_params, stop_sent, terminated,
                   joined, mstate, cfg, backend, close, lastPass, lastCycle, hist>>

\* The deadline test with the comparison the wrong way round.
deadline_passed_early(start, t) == t - start < CLOSE_TIMEOUT

\* The deadline test with the difference the wrong way round: never true.
deadline_passed_never(start, t) == start - t > CLOSE_TIMEOUT

\* close_actors: dt = time.time() - start; dt > self.CLOSE_TIMEOUT.
deadline_passed(start, t) == t - start > CLOSE_TIMEOUT

\* terminate() and join(): the actor is gone.
terminate(st, S) == [a \in Aids |-> IF a \in S THEN "dead" ELSE st[a]]

\* Monitor.on_stop -> close_actors, up to its first yield: start is taken and
\* manage_actors(stop=True) stops every live actor; with nothing to stop the
\* generator is done.
on_stop ==
    /\ mstate = "running"
    /\ LET m == manage_actors(MANAGED_ACTORS, linked, status, FALSE, TRUE, TRUE)
           to_stop == m.alive
       IN  /\ MANAGED_ACTORS' = m.ACTORS
           /\ linked' = m.linked
           /\ joined' = joined \cup m.joined
           /\ stop_sent' = stop_sent \cup m.stopped
           /\ close' = [start |-> now]
           /\ lastPass' = [mode |-> "stop", alive |-> m.alive,
                           managed |-> Cardinality(m.managed)]
           /\ mstate' = IF to_stop # 0 THEN "closing" ELSE "stopped"
    /\ UNCHANGED <<info_vars, client_vars, num_actors, _spawing, arbiter_ACTORS, status, pending, nextAid,
                   worker_params, terminated, cfg, backend, now, lastCycle, hist>>

\* close_actors, one turn of its loop after the yield:
\* manage_actors(manage=False) only reaps and counts; past CLOSE_TIMEOUT
\* manage_actors(terminate=True) terminates and joins what is left, and the
\* loop ends.
close_poll ==
    /\ mstate = "closing"
    /\ LET p  == manage_actors(MANAGED_ACTORS, linked, status, FALSE, FALSE, FALSE)
           late == deadline_passed(close.start, now)
           q  == manage_actors(p.ACTORS, p.linked, status, TRUE, FALSE, TRUE)
           to_stop == IF late THEN 0 ELSE p.alive
       IN  /\ MANAGED_ACTORS' = IF late THEN q.ACTORS ELSE p.ACTORS
           /\ linked' = IF late THEN q.linked ELSE p.linked
           /\ joined' = joined \cup p.joined \cup (IF late THEN q.joined ELSE {})
           /\ stop_sent' = stop_sent \cup p.stopped \cup (IF late THEN q.stopped ELSE {})
           /\ terminated' = terminated \cup p.terminated
                                \cup (IF late THEN q.terminated ELSE {})
           /\ status' = terminate(status, p.terminated
                                \cup (IF late THEN q.terminated ELSE {}))
           /\ lastPass' = IF late THEN [mode |-> "terminate", alive |-> q.alive,
                                        managed |-> Cardinality(q.managed)]
                                  ELSE [mode |-> "poll", alive |-> p.alive,
                                        managed |-> Cardinality(p.managed)]
           /\ mstate' = IF to_stop # 0 THEN "closing" ELSE "stopped"
    /\ UNCHANGED <<info_vars, client_vars, num_actors, _spawing, arbiter_ACTORS, pending, nextAid,
                   worker_params, cfg, backend, now, close, lastCycle, hist>>

\* num_actors is assigned a new value while the monitor runs.
set_num_actors(n) ==
    /\ mstate = "running"
    /\ hist.resizes < MaxResize
    /\ n # num_actors
    /\ num_actors' = n
    /\ hist' = [hist EXCEPT !.resizes = @ + 1]
    /\ UNCHANGED <<info_vars, client_vars, _spawing, MANAGED_ACTORS, arbiter_ACTORS, linked, status,
                   pending, nextAid, worker_params, stop_sent, terminated, joined,
                   mstate, cfg, backend, now, close, lastPass, lastCycle>>

resize == \E n \in 0..MaxActors : set_num_actors(n)

\* ------------------------------------------------------------ Monitor.info

\* Monitor._info(result): "if not result" takes the local info of the pool as it
\* is now (result is None for info(), and an empty list is as false);
\* num_actors is len(self.MANAGED_ACTORS) as it is now.
_info(result, ACTORS) ==
    [workers    |-> IF result = {} THEN ACTORS ELSE result,
     num_actors |-> Cardinality(ACTORS)]

\* Monitor.info(): the payload is made at once.
info_local ==
    /\ mstate = "running"
    /\ LET d == _info({}, MANAGED_ACTORS)
       IN  info_data' = [made |-> TRUE, full |-> FALSE, workers |-> d.workers,
                         num_actors |-> d.num_actors]
    /\ UNCHANGED <<pool_vars, client_vars, info_req>>

\* Monitor.info(full=True): one request per proxy of the pool, and _info as
\* the callback of their replies.
info_request ==
    /\ mstate = "running"
    /\ ~info_req.open
    /\ info_req' = [open |-> TRUE, result |-> MANAGED_ACTORS]
    /\ UNCHANGED <<pool_vars, client_vars, info_data>>

\* The replies are in: ActorCallBacks calls _info(result).
info_reply ==
    /\ info_req.open
    /\ LET d == _info(info_req.result, MANAGED_ACTORS)
       IN  info_data' = [made |-> TRUE, full |-> TRUE, workers |-> d.workers,
                         num_actors |-> d.num_actors]
    /\ info_req' = NoRequest
    /\ UNCHANGED <<pool_vars, client_vars>>

\* ------------------------------------------- the arbiter's control commands

\* The commands of tests/client.py.
Commands ==
    {[name |-> "ping", arg |-> ""], [name |-> "echo", arg |-> "Hello!"],
     [name |-> "echo", arg |-> "Ciao!"], [name |-> "quit", arg |-> ""],
     [name |-> "info", arg |-> ""]}

\* info['server']['active_connections'].
active_connections(conns) == Cardinality(conns)

\* An arbiter that answers every command with 'pong'.
command_reply_pong(cmd, conns) == [value |-> "pong", n |-> 0]

\* The arbiter's answer to a command: ping -> 'pong', echo(s) -> s,
\* quit -> True, info -> the server's data.
command_reply(cmd, conns) ==
    CASE cmd.name = "ping" -> [value |-> "pong", n |-> 0]
      [] cmd.name = "echo" -> [value |-> cmd.arg, n |-> 0]
      [] cmd.name = "quit" -> [value |-> "True", n |-> 0]
      [] cmd.name = "info" -> [value |-> "info", n |-> active_connections(conns)]

\* A quit that leaves the connection open.
after_command_open(cmd, c, conns) == conns

\* The arbiter's connections once it has served the command of client c: quit
\* closes the connection it came on.
after_command(cmd, c, conns) ==
    IF cmd.name = "quit" THEN conns \ {c} ELSE conns

\* A lost connection that stays counted.
connection_lost_kept(conns, c) == conns

\* The arbiter's connections once it has seen the connection of c closed.
connection_lost(conns, c) == conns \ {c}

\* The commands the clients have sent, all sessions together.
RECURSIVE sent_by(_)
sent_by(S) ==
    IF S = {} THEN 0
    ELSE LET c == CHOOSE x \in S : TRUE
         IN  Len(cmds[c]) + sent_by(S \ {c})

\* PulsarClient.connect(arbiter.address): the arbiter has one more connection.
connect(c) ==
    /\ cstate[c] = "new"
    /\ cstate' = [cstate EXCEPT ![c] = "connected"]
    /\ connections' = connections \cup {c}
    /\ UNCHANGED <<pool_vars, info_vars, received, cmds, replies, request, response>>

\* The client calls a command and waits for its reply (it is not async); on a
\* connection the arbiter has closed the call raises socket.error.
send(c, cmd) ==
    /\ cstate[c] = "connected"
    /\ Len(cmds[c]) = Len(replies[c])
    /\ IF c \in connections
       THEN /\ sent_by(Clients) < MaxCmds
            /\ cmds' = [cmds EXCEPT ![c] = Append(@, cmd)]
            /\ request' = [request EXCEPT ![c] = Append(@, cmd)]
            /\ cstate' = cstate
       ELSE /\ cstate' = [cstate EXCEPT ![c] = "failed"]
            /\ UNCHANGED <<cmds, request>>
    /\ UNCHANGED <<pool_vars, info_vars, connections, received, replies, response>>

\* The arbiter serves the command of client c.
serve(c) ==
    /\ request[c] # <<>>
    /\ c \in connections
    /\ LET cmd == Head(request[c])
       IN  /\ response' = [response EXCEPT
                             ![c] = Append(@, command_reply(cmd, connections))]
           /\ connections' = after_command(cmd, c, connections)
    /\ request' = [request EXCEPT ![c] = Tail(@)]
    /\ UNCHANGED <<pool_vars, info_vars, cstate, received, cmds, replies>>

\* The reply reaches the client: the call returns it and received goes up.
recv(c) ==
    /\ response[c] # <<>>
    /\ replies' = [replies EXCEPT ![c] = Append(@, Head(response[c]))]
    /\ received' = [received EXCEPT ![c] = @ + 1]
    /\ response' = [response EXCEPT ![c] = Tail(@)]
    /\ UNCHANGED <<pool_vars, info_vars, connections, cstate, cmds, request>>

\* c.close().
client_close(c) ==
    /\ cstate[c] = "connected"
    /\ Len(cmds[c]) = Len(replies[c])
    /\ cstate' = [cstate EXCEPT ![c] = "closed"]
    /\ UNCHANGED <<pool_vars, info_vars, connections, received, cmds, replies,
                   request, response>>

\* The arbiter sees that the client of a connection is gone.
server_drop(c) ==
    /\ c \in connections
    /\ cstate[c] \in {"closed", "failed"}
    /\ connections' = connection_lost(connections, c)
    /\ UNCHANGED <<pool_vars, info_vars, cstate, received, cmds, replies,
                   request, response>>

client_connects == \E c \in Clients : connect(c)

client_sends == \E c \in Clients : \E cmd \in Commands : send(c, cmd)

arbiter_serves == \E c \in Clients : serve(c)

client_receives == \E c \in Clients : recv(c)

client_closes == \E c \in Clients : client_close(c)

arbiter_drops == \E c \in Clients : server_drop(c)

\* ------------------------------------------------------ specifications

\* The monitor from its construction to the end of its close.
Next ==
    \/ monitor_start
    \/ call
    \/ spawn_callback
    \/ actor_dies
    \/ actor_exits
    \/ arbiter_manage
    \/ actor_links
    \/ advance_time
    \/ close_time
    \/ on_stop
    \/ close_poll

Spec == Init /\ [][Next]_vars

\* The same, with num_actors reassigned while the monitor runs.
NextResize == Next \/ resize

SpecResize == Init /\ [][NextResize]_vars

\* The monitor while it runs: everything but its close.
NextRun ==
    \/ monitor_start
    \/ call
    \/ spawn_callback
    \/ actor_dies
    \/ arbiter_manage
    \/ actor_links
    \/ advance_time

SpecRun == Init /\ [][NextRun]_vars

\* The pool of the running monitor: cycles, spawn callbacks and a finite
\* number of actor failures.  The event loop runs every maintenance cycle and
\* every callback of a completed spawn.
NextPool ==
    \/ monitor_start
    \/ call
    \/ spawn_callback
    \/ actor_dies
    \/ arbiter_manage

SpecFair ==
    /\ Init /\ [][NextPool]_vars
    /\ WF_vars(monitor_start)
    /\ WF_vars(call)
    /\ \A a \in Aids : WF_vars(_spawn_actor(a))

\* The running monitor without failures, from a pool below num_actors.
NextNoFail ==
    \/ counted_call
    \/ spawn_callback

SpecNoFail ==
    /\ InitPool /\ [][NextNoFail]_vars
    /\ WF_vars(counted_call)
    /\ \A a \in Aids : WF_vars(_spawn_actor(a))

\* The pool from the construction of the monitor to the end of its close.
\* Only the time since the close began counts for the close.
NextShut ==
    \/ monitor_start
    \/ call
    \/ spawn_callback
    \/ actor_dies
    \/ actor_exits
    \/ arbiter_manage
    \/ actor_links
    \/ close_time
    \/ on_stop
    \/ close_poll

SpecShut == InitDefaults /\ [][NextShut]_vars

\* The close as the monitor's own pool sees it: actors fail, exit or stay, and
\* spawns complete at any time.  The event loop resumes close_actors after
\* every yield, and time passes.
NextClose ==
    \/ monitor_start
    \/ call
    \/ spawn_callback
    \/ actor_dies
    \/ actor_exits
    \/ close_time
    \/ on_stop
    \/ close_poll

SpecClose ==
    /\ Init /\ [][NextClose]_vars
    /\ WF_vars(close_poll)
    /\ WF_vars(close_time)

\* The whole life of the pool: cycles, spawns, failures, num_actors reassigned,
\* and the close.
NextLife ==
    \/ NextClose
    \/ resize

SpecLife == InitDefaults /\ [][NextLife]_vars

\* The running monitor asked for its info.
NextInfo ==
    \/ monitor_start
    \/ call
    \/ spawn_callback
    \/ actor_dies
    \/ info_local
    \/ info_request
    \/ info_reply

SpecInfo == InitDefaults /\ [][NextInfo]_vars

\* The arbiter and its clients; the pool takes no part.  The arbiter serves
\* every command it has, replies arrive, closed connections are noticed.
InitClient ==
    /\ InitDefaults
    /\ num_actors = 1

NextClient ==
    \/ client_connects
    \/ client_sends
    \/ arbiter_serves
    \/ client_receives
    \/ client_closes
    \/ arbiter_drops

SpecClient ==
    /\ InitClient /\ [][NextClient]_vars
    /\ \A c \in Clients :
          WF_vars(serve(c)) /\ WF_vars(recv(c)) /\ WF_vars(server_drop(c))

\* ---------------------------------------------------------------- claims

LiveActors == {a \in MANAGED_ACTORS : is_alive(status, a)}

\* C1 (as stated): without failures the live count equals num_actors within
\* 10 maintenance cycles.
C1_WithinTenCycles == hist.cycles >= 10 => LiveCount = num_actors

\* C1 (amended): without failures the live count reaches num_actors and then
\* stays there; it is there as soon as one maintenance cycle has found no
\* spawn in flight and the spawns in flight have completed.
C1_Converges ==
    /\ <>[](LiveCount = num_actors)
    /\ [](hist.idle = 1 /\ _spawing = 0 => LiveCount = num_actors)
    /\ [][LiveCount = num_actors => LiveCount' = num_actors]_vars

C1_Witness ==
    /\ hist.cycles >= 2
    /\ hist.idle = 1
    /\ _spawing = 0
    /\ LiveCount = num_actors
    /\ nextAid > 2

\* C2: a dead managed actor is reaped by a later cycle, and after finitely
\* many deaths the live count returns to num_actors for good.
C2_Respawn ==
    /\ \A a \in Aids :
          (a \in MANAGED_ACTORS /\ status[a] = "dead") ~> (a \notin MANAGED_ACTORS)
    /\ <>[](LiveCount = num_actors)

C2_Witness ==
    /\ num_actors > 0
    /\ hist.deaths > 0
    /\ joined # {}
    /\ _spawing = 0
    /\ LiveCount = num_actors

\* C3: a cycle starts spawns only with no spawn in flight, and then exactly
\* num_actors - len(MANAGED_ACTORS) of them; the proxies in the pool plus the
\* spawns in flight never exceed num_actors.
C3_NoDoubleSpawn ==
    /\ [](Cardinality(MANAGED_ACTORS) + _spawing <= num_actors)
    /\ [][_spawing' > _spawing =>
            /\ _spawing = 0
            /\ _spawing' = num_actors - Cardinality(MANAGED_ACTORS')]_vars

C3_Witness ==
    /\ _spawing > 0
    /\ hist.deaths > 0
    /\ joined # {}
    /\ Cardinality(MANAGED_ACTORS) + _spawing < num_actors

\* C4: with num_actors > 0 and more live actors in the pool than num_actors, a
\* cycle's stop_actors stops exactly the excess, and stops the oldest (the
\* smallest ages): none it stops is younger than one it keeps.
C4_TrimOldestFirst ==
    [][call =>
        LET live == LiveActors
            k    == Cardinality(live) - num_actors
            new  == stop_sent' \ stop_sent
        IN  (num_actors > 0 /\ k > 0) =>
                /\ Cardinality(new) = k
                /\ new \subseteq live
                /\ \A x \in new : \A y \in live \ new : age(x) < age(y)]_vars

\* C5: the close first stops every live managed actor, then sends no further
\* stop; an actor is terminated only by a turn of the close that finds it alive
\* more than CLOSE_TIMEOUT after the close began; a close that ends on a poll
\* finding nobody alive has terminated nobody.
C5_TwoPhaseClose ==
    /\ [][mstate = "running" /\ mstate' # "running" =>
            /\ LiveActors \subseteq stop_sent'
            /\ terminated' = terminated]_vars
    /\ [][mstate = "closing" => stop_sent' = stop_sent]_vars
    /\ [][terminated' # terminated =>
            /\ mstate = "closing"
            /\ now - close.start > CLOSE_TIMEOUT
            /\ terminated' \ terminated \subseteq LiveActors]_vars
    /\ [][mstate = "closing" /\ now - close.start <= CLOSE_TIMEOUT =>
            terminated' = terminated]_vars

C5_Witness ==
    /\ lastPass.mode = "terminate"
    /\ now - close.start > CLOSE_TIMEOUT
    /\ terminated # {}
    /\ terminated \subseteq stop_sent

\* C6: a close in progress always ends, and at its end no actor of the pool is
\* alive: what it dropped from the pool was dead, what is left in the pool was
\* terminated and joined.
C6_CloseFinishes ==
    /\ (mstate = "closing") ~> (mstate = "stopped")
    /\ [][mstate = "running" \/ mstate = "closing" =>
            \A a \in MANAGED_ACTORS \ MANAGED_ACTORS' : status[a] = "dead"]_vars
    /\ [][mstate # "stopped" /\ mstate' = "stopped" =>
            \A a \in MANAGED_ACTORS' :
                /\ status'[a] # "alive"
                /\ a \in terminated'
                /\ a \in joined']_vars

C6_Witness ==
    /\ mstate = "stopped"
    /\ \E a \in MANAGED_ACTORS : a \in terminated /\ a \in joined
    /\ \E b \in stop_sent \ MANAGED_ACTORS : b \in joined /\ b \notin terminated

\* C7: a pass of manage_actors joins every proxy it finds dead and removes it
\* from the pool and from the linked actors, and returns the number it found
\* alive; after a pass without terminate that number is the size of the pool.
C7_Reap ==
    [][call \/ on_stop \/ close_poll =>
        /\ \A a \in MANAGED_ACTORS \ LiveActors :
              a \notin MANAGED_ACTORS' /\ a \notin linked' /\ a \in joined'
        /\ lastPass'.alive = Cardinality(LiveActors)
        /\ lastPass'.mode # "terminate" =>
              lastPass'.alive = Cardinality(MANAGED_ACTORS')]_vars

C7_Witness ==
    /\ lastPass.mode = "manage"
    /\ lastPass.alive > 0
    /\ lastPass.alive = Cardinality(MANAGED_ACTORS)
    /\ joined # {}
    /\ pending # {}

\* C8: every worker that was spawned got schedule_periodic = false in its
\* parameters, whatever the monitor's configuration says; no worker schedules.
C8_WorkersDoNotSchedule ==
    \A a \in Aids : status[a] # "none" => ~worker_params[a].schedule_periodic

C8_Witness ==
    /\ cfg.schedule_periodic
    /\ backend.schedule_periodic
    /\ \E a \in MANAGED_ACTORS : status[a] = "alive"

\* C9: a maintenance cycle ticks at most once, and only with the backend
\* created by monitor_start, the monitor running and next_run <= now; nothing
\* else than a tick of a cycle moves the backend's next run.
C9_TickGating ==
    /\ [][call /\ lastCycle'.ticks > 0 =>
            /\ lastCycle'.ticks = 1
            /\ backend.created
            /\ mstate = "running"
            /\ backend.next_run <= now]_vars
    /\ [][backend.created /\ backend' # backend =>
            call /\ lastCycle'.ticks = 1]_vars
    /\ [](~backend.created => lastCycle.ticks = 0)

C9_Witness ==
    /\ lastCycle.ticks = 1
    /\ now > 0
    /\ backend.next_run > now

\* C10: no proxy is in the monitor's MANAGED_ACTORS and in the arbiter's
\* MANAGED_ACTORS at the same time.
C10_SinglePool == MANAGED_ACTORS \cap arbiter_ACTORS = {}

\* C11: a proxy enters the pool only in the callback of its spawn, and leaves
\* the pool only in a step that found it not alive and joined it; no step
\* removes a proxy whose actor is alive.
C11_ProxyLifecycle ==
    [][/\ \A a \in MANAGED_ACTORS' \ MANAGED_ACTORS :
              /\ spawn_callback
              /\ a \in pending /\ a \notin pending'
       /\ \A a \in MANAGED_ACTORS \ MANAGED_ACTORS' :
              /\ ~is_alive(status, a)
              /\ a \in joined']_vars

C11_Witness ==
    /\ mstate = "stopped"
    /\ hist.resizes > 0
    /\ \E a \in MANAGED_ACTORS : a \in terminated
    /\ \E b \in joined \ MANAGED_ACTORS : b \in stop_sent

\* C15: with num_actors = 0 a maintenance cycle spawns nothing and stops
\* nothing, whatever the size of the pool; it only reaps the dead.
C15_ZeroIsUnbounded ==
    [][call /\ num_actors = 0 =>
        /\ _spawing' = _spawing
        /\ pending' = pending
        /\ nextAid' = nextAid
        /\ stop_sent' = stop_sent
        /\ terminated' = terminated
        /\ lastCycle'.error = ""
        /\ MANAGED_ACTORS' = LiveActors]_vars

C15_Witness ==
    /\ num_actors = 0
    /\ lastPass.mode = "manage"
    /\ lastCycle.num = 0
    /\ MANAGED_ACTORS # {}
    /\ \E a \in joined : a \notin MANAGED_ACTORS

\* C16: a cycle runs only while the monitor is running, and every cycle runs
\* manage_actors, then spawn_actors (so the spawns make up for what was just
\* reaped), then stop_actors, then the monitor_task hook; a tick is a tick of
\* the hook of a cycle.
C16_CycleOrder ==
    /\ [][call =>
            /\ mstate = "running"
            /\ lastPass'.mode = "manage"
            /\ (_spawing = 0 /\ num_actors > Cardinality(LiveActors) =>
                    _spawing' = num_actors - Cardinality(LiveActors))
            /\ lastCycle'.hook = 1]_vars
    /\ [](lastCycle.ticks = 1 => lastCycle.hook = 1)
    /\ [][backend.created /\ backend' # backend => mstate = "running"]_vars

\* C17: a pass of manage_actors gives every live actor one action: the
\* maintenance pass calls manage_actor once per live actor and nothing else,
\* the first pass of the close only stops them, the terminate pass only
\* terminates them, a polling pass leaves them alone; a dead actor gets none.
C17_OneActionPerActor ==
    /\ [][call =>
            /\ lastPass'.managed = Cardinality(LiveActors)
            /\ stop_sent' = stop_sent
            /\ terminated' = terminated]_vars
    /\ [][on_stop =>
            /\ stop_sent' = stop_sent \cup LiveActors
            /\ terminated' = terminated
            /\ lastPass'.managed = 0]_vars
    /\ [][close_poll /\ lastPass'.mode = "poll" =>
            /\ stop_sent' = stop_sent
            /\ terminated' = terminated
            /\ status' = status
            /\ lastPass'.managed = 0]_vars
    /\ [][close_poll /\ lastPass'.mode = "terminate" =>
            /\ terminated' = terminated \cup LiveActors
            /\ stop_sent' = stop_sent
            /\ lastPass'.managed = 0]_vars
    /\ [][\A a \in MANAGED_ACTORS \ LiveActors :
            /\ a \in stop_sent' => a \in stop_sent
            /\ a \in terminated' => a \in terminated]_vars

C17_Witness ==
    /\ mstate = "closing"
    /\ lastPass.mode = "poll"
    /\ lastPass.alive > 0
    /\ lastPass.managed = 0
    /\ \E a \in joined : a \notin terminated

\* C20: every actor the close terminates was sent stop first, and every actor
\* the close waits on, one whose spawn completed after the close began
\* included, was sent stop.
C20_CloseCoversLate ==
    /\ terminated \subseteq stop_sent
    /\ mstate = "closing" /\ lastPass.mode = "poll" =>
          LiveActors \subseteq stop_sent

\* C18: no maintenance cycle, whatever it spawns, changes the monitor's own
\* schedule_periodic setting: a monitor configured with schedule_periodic
\* true keeps it true, and its backend goes on ticking.
C18_SpawnKeepsSetting ==
    /\ [][cfg'.schedule_periodic = cfg.schedule_periodic]_vars
    /\ [](backend.created => backend.schedule_periodic = cfg.schedule_periodic)

\* C19: every payload of info, of info() and of info(full=True), reports as
\* num_actors the number of entries of its workers.
C19_InfoSnapshot ==
    info_data.made => info_data.num_actors = Cardinality(info_data.workers)

Waiting(c) == Len(cmds[c]) > Len(replies[c])

\* The arbiter has served a quit of client c.
QuitServed(c) ==
    \E i \in 1..Len(cmds[c]) :
        cmds[c][i].name = "quit" /\ i <= Len(replies[c]) + Len(response[c])

\* C12: on a session every command gets one reply, in order: at most one
\* command is out, the replies are those of the commands in the order sent,
\* 'pong' for ping and s for echo(s), received counts them, and a command that
\* is out gets its reply.
C12_OneReplyPerCommand ==
    /\ [](\A c \in Clients :
            /\ received[c] = Len(replies[c])
            /\ Len(request[c]) + Len(response[c]) = Len(cmds[c]) - Len(replies[c])
            /\ Len(cmds[c]) - Len(replies[c]) <= 1
            /\ ~Waiting(c) => received[c] = Len(cmds[c])
            /\ \A i \in 1..Len(replies[c]) :
                  /\ cmds[c][i].name = "ping" => replies[c][i].value = "pong"
                  /\ cmds[c][i].name = "echo" => replies[c][i].value = cmds[c][i].arg)
    /\ \A c \in Clients : Waiting(c) ~> ~Waiting(c)

C12_Witness ==
    \E c \in Clients :
        /\ received[c] = 2
        /\ cmds[c][1].name = "echo" /\ replies[c][1].value = "Hello!"
        /\ cmds[c][2].name = "echo" /\ replies[c][2].value = "Ciao!"

\* C13: quit is answered with True, and once the arbiter has served it the
\* session takes no further command and gets no further reply but that True: a
\* later call does not return, it fails.
C13_QuitIsFinal ==
    /\ [](\A c \in Clients : \A i \in 1..Len(replies[c]) :
            cmds[c][i].name = "quit" => replies[c][i].value = "True")
    /\ [](\A c \in Clients : \A i \in 1..Len(cmds[c]) :
            cmds[c][i].name = "quit" => i = Len(cmds[c]))
    /\ [][\A c \in Clients :
            QuitServed(c) /\ ~Waiting(c) =>
                /\ cmds'[c] = cmds[c]
                /\ replies'[c] = replies[c]
                /\ cstate'[c] # cstate[c] => cstate'[c] \in {"failed", "closed"}]_vars
    /\ [](\A c \in Clients : cstate[c] = "failed" => QuitServed(c))

C13_Witness ==
    \E c \in Clients :
        /\ cstate[c] = "failed"
        /\ Len(replies[c]) = 2
        /\ cmds[c][1].name = "ping" /\ replies[c][1].value = "pong"
        /\ cmds[c][2].name = "quit" /\ replies[c][2].value = "True"

\* The sessions that are connected: the client has connected and not closed,
\* and the arbiter has not closed the connection on a quit.
Connected == {c \in Clients : cstate[c] = "connected" /\ ~QuitServed(c)}

\* C14: the arbiter counts the connected sessions: a connect raises
\* active_connections by one, a connection that goes lowers it by one, a closed
\* session does go, and info reports the count as it is when served.
C14_ConnectionAccounting ==
    /\ [](Connected \subseteq connections)
    /\ []((\A c \in Clients : cstate[c] # "closed" /\ cstate[c] # "failed")
             => connections = Connected)
    /\ [][\A c \in Clients :
            /\ cstate[c] = "new" /\ cstate'[c] = "connected" =>
                  active_connections(connections') = active_connections(connections) + 1
            /\ c \in connections /\ c \notin connections' =>
                  active_connections(connections') = active_connections(connections) - 1
            /\ Len(response'[c]) > Len(response[c]) /\ Head(request[c]).name = "info" =>
                  response'[c][Len(response'[c])].n = Cardinality(connections)]_vars
    /\ \A c \in Clients : (cstate[c] = "closed") ~> (c \notin connections)

C14_Witness ==
    \E c \in Clients :
        /\ Len(replies[c]) = 2
        /\ cmds[c][1].name = "info" /\ replies[c][1].n = 2
        /\ cmds[c][2].name = "info" /\ replies[c][2].n = 1
        /\ \E d \in Clients : cstate[d] = "closed" /\ d \notin connections

\* C21: the spawn counter is the number of spawns whose callback has not run
\* yet; it is never negative, moves only when a cycle spawns or a callback
\* runs, and with every callback run it is back at 0, again and again.
C21_SpawnCounter ==
    /\ [](_spawing = Cardinality(pending) /\ _spawing >= 0)
    /\ [][_spawing' # _spawing =>
            \/ call /\ _spawing = 0 /\ _spawing' = Cardinality(pending' \ pending)
            \/ spawn_callback /\ _spawing' = _spawing - 1]_vars
    /\ []<>(_spawing = 0)

C21_Witness ==
    /\ _spawing = 0
    /\ pending = {}
    /\ nextAid > 2
    /\ \E a \in Aids :
          /\ status[a] = "dead"
          /\ a \notin arbiter_ACTORS
          /\ a \notin MANAGED_ACTORS
          /\ a \notin joined
====
